---- MODULE Spec2Model ----
(***************************************************************************)
(* A model of UserManager (src/data_management.py): an insertion-ordered   *)
(* list of user records held in memory and mirrored to one JSON file.      *)
(*                                                                         *)
(* Python strings are sequences of one-character strings, a Python dict is *)
(* a function from its keys to its values, and an optional argument (a     *)
(* parameter whose default is None) is a set: {} is None, {v} is the value *)
(* v.                                                                      *)
(***************************************************************************)
EXTENDS Integers, Sequences, FiniteSets, TLC

VARIABLES
    users,    \* self.users: the in-memory list of user dicts
    file,     \* the content of self.filename, or NoFile when it does not exist
    pc,       \* "menu": waiting for a call; "done": a call has just returned
    op,       \* the operation that has just returned ("none" at the menu)
    arg,      \* its arguments
    ret,      \* its return value
    msg,      \* what it printed: "DuplicateId", "InvalidEmail" or "none"
    users0,   \* self.users when the operation was called
    file0     \* the file when the operation was called

vars == <<users, file, pc, op, arg, ret, msg, users0, file0>>

\* The largest collection the model lets create_user build.
MaxUsers == 2

-----------------------------------------------------------------------------
(* Strings and characters *)

LowerLetters == <<"a","b","c","d","e","f","g","h","i","j","k","l","m",
                  "n","o","p","q","r","s","t","u","v","w","x","y","z">>
UpperLetters == <<"A","B","C","D","E","F","G","H","I","J","K","L","M",
                  "N","O","P","Q","R","S","T","U","V","W","X","Y","Z">>
Digits == {"0","1","2","3","4","5","6","7","8","9"}

Range(s) == {s[i] : i \in DOMAIN s}

AlphaNum == Range(LowerLetters) \cup Range(UpperLetters) \cup Digits

\* str.lower() on one character, then on a string
LowerChar(c) ==
    IF c \in Range(UpperLetters)
    THEN LowerLetters[CHOOSE i \in DOMAIN UpperLetters : UpperLetters[i] = c]
    ELSE c

lower(s) == [i \in DOMAIN s |-> LowerChar(s[i])]

\* The three character classes of email_regex
LocalClass  == AlphaNum \cup {"_", ".", "+", "-"}
DomainClass == AlphaNum \cup {"-"}
TldClass    == AlphaNum \cup {"-", "."}

AllIn(s, from, to, class) == \A i \in from..to : s[i] \in class

\* $ without re.MULTILINE: the end of the string, or just before a newline
\* that is the last character of the string.
AtDollar(s, k) ==
    \/ k = Len(s)
    \/ k = Len(s) - 1 /\ s[Len(s)] = "\n"

\* The part of email_regex between ^ and $,
\* [a-zA-Z0-9_.+-]+@[a-zA-Z0-9-]+\.[a-zA-Z0-9-.]+, matches the first k
\* characters of email: i is the last character of the local part, j the last
\* of the domain label.
MatchesUpTo(email, k) ==
    \E i \in 1..k : \E j \in 1..k :
        /\ AllIn(email, 1, i, LocalClass)
        /\ i + 1 <= k /\ email[i + 1] = "@"
        /\ i + 2 <= j /\ AllIn(email, i + 2, j, DomainClass)
        /\ j + 1 <= k /\ email[j + 1] = "."
        /\ j + 2 <= k /\ AllIn(email, j + 2, k, TldClass)

\* re.match(email_regex, email) is not None
validate_email(email) ==
    \E k \in 1..Len(email) : MatchesUpTo(email, k) /\ AtDollar(email, k)

-----------------------------------------------------------------------------
(* The JSON file *)

NoFile == [exists |-> FALSE]

\* The order in which the model writes the keys of an object.
KeyOrder == <<"id", "name", "email", "age">>

DigitChars == <<"0","1","2","3","4","5","6","7","8","9">>

Quote     == "\""
Backslash == "\\"

\* The JSON text of one character of a string: the quote, the backslash and
\* the newline are written as two-character escapes.
EscapeChar(c) ==
    CASE c = Quote     -> <<Backslash, Quote>>
      [] c = Backslash -> <<Backslash, Backslash>>
      [] c = "\n"      -> <<Backslash, "n">>
      [] OTHER         -> <<c>>

RECURSIVE EscapeChars(_)
EscapeChars(s) ==
    IF s = <<>> THEN <<>> ELSE EscapeChar(Head(s)) \o EscapeChars(Tail(s))

\* The JSON text of a string
EncodeStr(s) == <<Quote>> \o EscapeChars(s) \o <<Quote>>

RECURSIVE EncodeNat(_)
EncodeNat(n) ==
    IF n < 10 THEN <<DigitChars[n + 1]>>
    ELSE EncodeNat(n \div 10) \o <<DigitChars[(n % 10) + 1]>>

\* The JSON text of an integer
EncodeInt(n) == IF n < 0 THEN <<"-">> \o EncodeNat(0 - n) ELSE EncodeNat(n)

\* json.dump of one value. In a user dict 'age' is an int and every other
\* key holds a str.
DumpValue(k, v) == IF k = "age" THEN EncodeInt(v) ELSE EncodeStr(v)

\* json.dump of one dict: its members, each a key and the text of its value
DumpObject(u) ==
    LET present == SelectSeq(KeyOrder, LAMBDA k : k \in DOMAIN u)
    IN  [i \in DOMAIN present |->
            [key |-> present[i], text |-> DumpValue(present[i], u[present[i]])]]

\* json.dump(self.users, file): the file exists and holds the array
json_dump(us) ==
    [exists |-> TRUE, array |-> [i \in DOMAIN us |-> DumpObject(us[i])]]

RECURSIVE UnescapeChars(_)
UnescapeChars(t) ==
    IF t = <<>> THEN <<>>
    ELSE IF Head(t) = Backslash /\ Len(t) >= 2
    THEN <<(IF t[2] = "n" THEN "\n" ELSE t[2])>> \o UnescapeChars(Tail(Tail(t)))
    ELSE <<Head(t)>> \o UnescapeChars(Tail(t))

\* The string a JSON string text stands for
DecodeStr(t) == UnescapeChars(SubSeq(t, 2, Len(t) - 1))

DigitValue(c) == (CHOOSE i \in DOMAIN DigitChars : DigitChars[i] = c) - 1

RECURSIVE DecodeNat(_)
DecodeNat(t) ==
    IF t = <<>> THEN 0
    ELSE 10 * DecodeNat(SubSeq(t, 1, Len(t) - 1)) + DigitValue(t[Len(t)])

\* The integer a JSON number text stands for
DecodeInt(t) == IF Head(t) = "-" THEN 0 - DecodeNat(Tail(t)) ELSE DecodeNat(t)

\* json.load of one value: a text that opens with a quote is a string
LoadValue(t) == IF Head(t) = Quote THEN DecodeStr(t) ELSE DecodeInt(t)

\* json.load of one object: the dict of its members
LoadObject(o) ==
    [k \in {o[i].key : i \in DOMAIN o} |->
        LoadValue((CHOOSE m \in Range(o) : m.key = k).text)]

\* json.load(file): the list of the dicts of the array
json_load(f) == [i \in DOMAIN f.array |-> LoadObject(f.array[i])]

\* load_users: what __init__ reads from the file
load_users(f) == IF f.exists THEN json_load(f) ELSE <<>>

\* save_users: the file after the write
save_users(us) == json_dump(us)

-----------------------------------------------------------------------------
(* The pure parts of the operations *)

\* A scan that starts at the second user.
FirstIndexFromSecond(us, user_id) ==
    IF \E i \in DOMAIN us : i > 1 /\ us[i]["id"] = user_id
    THEN CHOOSE i \in DOMAIN us :
            /\ i > 1 /\ us[i]["id"] = user_id
            /\ \A j \in 2..(i - 1) : us[j]["id"] # user_id
    ELSE 0

\* A scan whose loop variable is used after the loop: when no user matches
\* it is left at the last user.
FirstIndexOrLast(us, user_id) ==
    IF \E i \in DOMAIN us : us[i]["id"] = user_id
    THEN CHOOSE i \in DOMAIN us :
            /\ us[i]["id"] = user_id
            /\ \A j \in 1..(i - 1) : us[j]["id"] # user_id
    ELSE Len(us)

\* The index of the first user whose id is user_id, 0 when there is none
\* (the for loops of read_user, update_user and delete_user).
FirstIndex(us, user_id) ==
    IF \E i \in DOMAIN us : us[i]["id"] = user_id
    THEN CHOOSE i \in DOMAIN us :
            /\ us[i]["id"] = user_id
            /\ \A j \in 1..(i - 1) : us[j]["id"] # user_id
    ELSE 0

\* `if user_id:` for a string that may be None
TruthyStr(o) == \E s \in o : s # <<>>

\* `if age:` for an integer that may be None
TruthyInt(o) == \E n \in o : n # 0

\* read_user(user_id): a user, None, or the whole list
read_user(us, user_id) ==
    IF TruthyStr(user_id)
    THEN LET id == CHOOSE s \in user_id : TRUE
             i  == FirstIndex(us, id)
         IN  IF i # 0 THEN [kind |-> "user", val |-> <<us[i]>>]
                      ELSE [kind |-> "none", val |-> <<>>]
    ELSE [kind |-> "list", val |-> us]

\* The truth value of what read_user returned: a dict with keys is true,
\* None is false, a list is true when it is not empty.
Truthy(r) ==
    CASE r.kind = "user" -> DOMAIN r.val[1] # {}
      [] r.kind = "none" -> FALSE
      [] r.kind = "list" -> r.val # <<>>

\* A merge in which the keys the user already has keep their values
\* (dict.setdefault for each key in place of dict.update).
DictUpdateKeepOld(user, updated_user) ==
    [k \in DOMAIN user \cup DOMAIN updated_user |->
        IF k \in DOMAIN user THEN user[k] ELSE updated_user[k]]

\* dict.update: the keys of updated_user overwrite, the others stay
DictUpdate(user, updated_user) ==
    [k \in DOMAIN user \cup DOMAIN updated_user |->
        IF k \in DOMAIN updated_user THEN updated_user[k] ELSE user[k]]

\* A removal by filtering: the list without every element equal to x
ListRemoveAll(us, x) == SelectSeq(us, LAMBDA u : u # x)

\* list.remove(x): the list without its first element equal to x
ListRemove(us, x) ==
    LET i == CHOOSE n \in DOMAIN us : us[n] = x /\ \A m \in 1..(n - 1) : us[m] # x
    IN  SubSeq(us, 1, i - 1) \o SubSeq(us, i + 1, Len(us))

\* search_users: three filters, each applied when its criterion is true
search_users(us, name, email, age) ==
    LET r1 == IF TruthyStr(name)
              THEN SelectSeq(us, LAMBDA u :
                        lower(u["name"]) = lower(CHOOSE s \in name : TRUE))
              ELSE us
        r2 == IF TruthyStr(email)
              THEN SelectSeq(r1, LAMBDA u :
                        lower(u["email"]) = lower(CHOOSE s \in email : TRUE))
              ELSE r1
        r3 == IF TruthyInt(age)
              THEN SelectSeq(r2, LAMBDA u : u["age"] = (CHOOSE n \in age : TRUE))
              ELSE r2
    IN  r3

-----------------------------------------------------------------------------
(* The inputs the model draws from *)

GoodEmail      == <<"a", "@", "b", ".", "c">>
GoodEmailUpper == <<"A", "@", "b", ".", "c">>
NewlineEmail   == <<"a", "@", "b", ".", "c", "\n">>
BadEmail       == <<"a", "b">>

\* The ids given to create_user, update_user and delete_user
Ids == {<<>>, <<"1">>, <<"2">>}

User(id, name, email, age) ==
    [id |-> id, name |-> name, email |-> email, age |-> age]

\* The records given to create_user
NewUsers ==
    {User(id, <<"A">>, GoodEmail, 30) : id \in Ids}
    \cup {User(id, <<"b">>, GoodEmailUpper, 0) : id \in Ids}
    \cup {User(id, <<"A">>, NewlineEmail, 30) : id \in Ids}
    \cup {User(id, <<"A">>, BadEmail, 0) : id \in Ids}

\* The partial objects given to update_user
Updates ==
    { <<>>,
      [age |-> 31],
      [email |-> BadEmail, age |-> 31],
      [email |-> NewlineEmail],
      [name |-> <<"A">>, email |-> GoodEmail],
      [id |-> <<"2">>] }

\* The criteria given to search_users
SearchNames  == {{}, {<<>>}, {<<"a">>}}
SearchEmails == {{}, {GoodEmail}}
SearchAges   == {{}, {0}, {30}}

\* The ids given to read_user
ReadIds == {{}} \cup {{id} : id \in Ids}

NoArg == [none |-> TRUE]
Bool(b) == [kind |-> "bool", val |-> b]
NoRet == [kind |-> "nothing", val |-> <<>>]

-----------------------------------------------------------------------------
(* The state machine *)

\* __init__ with no file at self.filename
Init ==
    /\ file = NoFile
    /\ users = load_users(NoFile)
    /\ pc = "menu"
    /\ op = "none"
    /\ arg = NoArg
    /\ ret = NoRet
    /\ msg = "none"
    /\ users0 = <<>>
    /\ file0 = NoFile

\* What every call records: the operation, its arguments and the state it saw
Called(name, a) ==
    /\ pc = "menu"
    /\ pc' = "done"
    /\ op' = name
    /\ arg' = a
    /\ users0' = users
    /\ file0' = file

\* create_user(user)
create_user(user) ==
    /\ Called("create", [user |-> user])
    /\ IF Truthy(read_user(users, {user["id"]}))
       THEN /\ msg' = "DuplicateId"
            /\ ret' = Bool(FALSE)
            /\ UNCHANGED <<users, file>>
       ELSE IF ~validate_email(user["email"])
       THEN /\ msg' = "InvalidEmail"
            /\ ret' = Bool(FALSE)
            /\ UNCHANGED <<users, file>>
       ELSE /\ Len(users) < MaxUsers
            /\ users' = Append(users, user)
            /\ file' = save_users(users')
            /\ msg' = "none"
            /\ ret' = Bool(TRUE)

\* read_user followed by a call of save_users
ReadUserSaves(user_id) ==
    /\ Called("read", [id |-> user_id])
    /\ ret' = read_user(users, user_id)
    /\ msg' = "none"
    /\ file' = save_users(users)
    /\ UNCHANGED users

\* read_user(user_id) called from outside
ReadUser(user_id) ==
    /\ Called("read", [id |-> user_id])
    /\ ret' = read_user(users, user_id)
    /\ msg' = "none"
    /\ UNCHANGED <<users, file>>

\* update_user(user_id, updated_user)
update_user(user_id, updated_user) ==
    /\ Called("update", [id |-> user_id, fields |-> updated_user])
    /\ LET i == FirstIndex(users, user_id)
       IN  IF i = 0
           THEN /\ msg' = "none"
                /\ ret' = Bool(FALSE)
                /\ UNCHANGED <<users, file>>
           ELSE IF "email" \in DOMAIN updated_user
                   /\ ~validate_email(updated_user["email"])
           THEN /\ msg' = "InvalidEmail"
                /\ ret' = Bool(FALSE)
                /\ UNCHANGED <<users, file>>
           ELSE /\ users' = [users EXCEPT ![i] = DictUpdate(users[i], updated_user)]
                /\ file' = save_users(users')
                /\ msg' = "none"
                /\ ret' = Bool(TRUE)

\* delete_user without its call of save_users
delete_user_nosave(user_id) ==
    /\ Called("delete", [id |-> user_id])
    /\ msg' = "none"
    /\ LET i == FirstIndex(users, user_id)
       IN  IF i = 0
           THEN /\ ret' = Bool(FALSE)
                /\ UNCHANGED <<users, file>>
           ELSE /\ users' = ListRemove(users, users[i])
                /\ ret' = Bool(TRUE)
                /\ UNCHANGED file

\* delete_user(user_id)
delete_user(user_id) ==
    /\ Called("delete", [id |-> user_id])
    /\ msg' = "none"
    /\ LET i == FirstIndex(users, user_id)
       IN  IF i = 0
           THEN /\ ret' = Bool(FALSE)
                /\ UNCHANGED <<users, file>>
           ELSE /\ users' = ListRemove(users, users[i])
                /\ file' = save_users(users')
                /\ ret' = Bool(TRUE)

\* search_users(name, email, age)
SearchUsers(name, email, age) ==
    /\ Called("search", [name |-> name, email |-> email, age |-> age])
    /\ ret' = [kind |-> "list", val |-> search_users(users, name, email, age)]
    /\ msg' = "none"
    /\ UNCHANGED <<users, file>>

\* The caller takes the result and comes back for its next call (the loop of
\* main).
Menu ==
    /\ pc = "done"
    /\ pc' = "menu"
    /\ op' = "none"
    /\ arg' = NoArg
    /\ ret' = NoRet
    /\ msg' = "none"
    /\ users0' = <<>>
    /\ file0' = NoFile
    /\ UNCHANGED <<users, file>>

Create == \E user \in NewUsers : create_user(user)
Read   == \E user_id \in ReadIds : ReadUser(user_id)
Update == \E user_id \in Ids : \E updated_user \in Updates :
              update_user(user_id, updated_user)
Delete == \E user_id \in Ids : delete_user(user_id)
Search == \E name \in SearchNames : \E email \in SearchEmails :
              \E age \in SearchAges : SearchUsers(name, email, age)

Next == Create \/ Read \/ Update \/ Delete \/ Search \/ Menu

Spec == Init /\ [][Next]_vars

-----------------------------------------------------------------------------
(* validate_email on its own *)

\* The longest string the model gives to validate_email.
MaxLen == 6

\* A letter, the two separators (the dot is also a character of the local
\* part and of the last part, not of the domain label) and the newline.
EmailAlphabet == {"a", "@", ".", "\n"}

EmailStrings == UNION {[1..n -> EmailAlphabet] : n \in 0..MaxLen}

\* UserManager.validate_email(email), a static method
ValidateEmail(email) ==
    /\ Called("validate", [email |-> email])
    /\ ret' = Bool(validate_email(email))
    /\ msg' = "none"
    /\ UNCHANGED <<users, file>>

Validate == \E email \in EmailStrings : ValidateEmail(email)

NextEmail == Validate \/ Menu

SpecEmail == Init /\ [][NextEmail]_vars

-----------------------------------------------------------------------------
(* __init__ on a storage location that may hold anything *)

\* The characters that may follow a backslash in a JSON string (\u apart)
EscapeLetters == {Quote, Backslash, "/", "b", "f", "n", "r", "t"}

\* The inside of a JSON string: no bare quote, no bare control character,
\* and every backslash opens an escape.
RECURSIVE ValidStringInner(_)
ValidStringInner(t) ==
    IF t = <<>> THEN TRUE
    ELSE IF Head(t) = Backslash
    THEN Len(t) >= 2 /\ t[2] \in EscapeLetters /\ ValidStringInner(Tail(Tail(t)))
    ELSE Head(t) \notin {Quote, "\n"} /\ ValidStringInner(Tail(t))

\* The decoder accepts the text as a string
ValidStringText(t) ==
    /\ Len(t) >= 2
    /\ t[1] = Quote /\ t[Len(t)] = Quote
    /\ ValidStringInner(SubSeq(t, 2, Len(t) - 1))

\* The decoder accepts the text as an integer: an optional minus sign, then
\* digits, with no leading zero.
ValidNumberText(t) ==
    LET d == IF t # <<>> /\ Head(t) = "-" THEN Tail(t) ELSE t
    IN  /\ d # <<>>
        /\ \A i \in DOMAIN d : d[i] \in Digits
        /\ Len(d) > 1 => d[1] # "0"

ValidValueText(t) ==
    /\ t # <<>>
    /\ IF Head(t) = Quote THEN ValidStringText(t) ELSE ValidNumberText(t)

\* json.load(file) raises no JSONDecodeError
json_valid(f) ==
    \A i \in DOMAIN f.array : \A j \in DOMAIN f.array[i] :
        ValidValueText(f.array[i][j].text)

\* The most records of a file the model starts from.
MaxStored == 2

\* The records such a file may hold: nothing has validated them.
FileUsers ==
    {User(id, <<"A">>, GoodEmail, 30) : id \in Ids}
    \cup { User(<<"1">>, <<"b">>, GoodEmailUpper, 0),
           User(<<"2">>, <<"A">>, NewlineEmail, 30),
           User(<<>>, <<"A">>, BadEmail, 0) }

FileCollections == UNION {[1..n -> FileUsers] : n \in 0..MaxStored}

\* The files that hold a JSON array of such records
ValidFiles == {json_dump(c) : c \in FileCollections}

\* A write that stopped inside the email of the first record: the string has
\* no closing quote.
Unterminated(f) ==
    [f EXCEPT !.array[1][3].text = SubSeq(@, 1, Len(@) - 1)]

\* A write that stopped before the age of the last record: the value is
\* missing.
MissingValue(f) ==
    [f EXCEPT !.array[Len(f.array)][4].text = <<>>]

\* The files whose content is not valid JSON
CorruptFiles ==
    {Unterminated(f) : f \in ValidFiles \ {json_dump(<<>>)}}
    \cup {MissingValue(f) : f \in ValidFiles \ {json_dump(<<>>)}}

\* Before UserManager(filename): the location holds no file, a JSON array,
\* or something that is not JSON.
InitStorage ==
    /\ file \in {NoFile} \cup ValidFiles \cup CorruptFiles
    /\ users = <<>>
    /\ pc = "new"
    /\ op = "none"
    /\ arg = NoArg
    /\ ret = NoRet
    /\ msg = "none"
    /\ users0 = <<>>
    /\ file0 = NoFile

\* __init__ that catches the decoder's exception and starts empty
UserManagerFallback ==
    /\ pc = "new"
    /\ pc' = "done"
    /\ op' = "init"
    /\ users0' = users
    /\ file0' = file
    /\ msg' = "none"
    /\ users' = IF file.exists /\ ~json_valid(file) THEN <<>> ELSE load_users(file)
    /\ UNCHANGED <<file, arg, ret>>

\* UserManager(filename): __init__ sets self.users = [] and calls load_users,
\* whose json.load raises JSONDecodeError on a file that is not JSON; nothing
\* catches it, and no UserManager is returned.
UserManager ==
    /\ pc = "new"
    /\ op' = "init"
    /\ users0' = users
    /\ file0' = file
    /\ IF file.exists /\ ~json_valid(file)
       THEN /\ pc' = "raised"
            /\ msg' = "StorageCorrupt"
            /\ users' = <<>>
       ELSE /\ pc' = "done"
            /\ msg' = "none"
            /\ users' = load_users(file)
    /\ UNCHANGED <<file, arg, ret>>

NextInit == UserManager

SpecInit == InitStorage /\ [][NextInit]_vars

-----------------------------------------------------------------------------
(* The vocabulary of the properties *)

\* The pattern of validate_email matches the whole string, from its first to
\* its last character.
MatchesWholeString(s) == MatchesUpTo(s, Len(s))

HasId(us, id) == \E i \in DOMAIN us : us[i]["id"] = id

Returned(name) == pc = "done" /\ op = name

Succeeded == ret = Bool(TRUE)
Failed    == ret = Bool(FALSE)

\* The signals: create_user prints which check failed; update_user and
\* delete_user return False without a message when no user matches.
DuplicateId  == Failed /\ msg = "DuplicateId"
InvalidEmail == Failed /\ msg = "InvalidEmail"
NotFound     == Failed /\ msg = "none"

\* What read_user gives a caller that finds nothing: None, or the whole list
\* when that list is empty.
ReadNotFound(r) == ~Truthy(r)

-----------------------------------------------------------------------------
(* C1 *)

\* C1: no two records of the collection have the same id, in every state
\* reached by create, update (with any partial object, one that carries the
\* key id included) and delete.
IdsUnique ==
    \A i \in DOMAIN users : \A j \in DOMAIN users :
        i # j => users[i]["id"] # users[j]["id"]

-----------------------------------------------------------------------------
(* C2 *)

\* C2: the collection a fresh __init__ would load from the file is the
\* collection in memory; a mutation that returned True has written the file
\* with the collection it leaves, and one that returned False has left the
\* file as it was.
StorageMirrorsMemory ==
    /\ load_users(file) = users
    /\ (pc = "done" /\ op \in {"create", "update", "delete"}) =>
          /\ Succeeded => file.exists /\ file = json_dump(users)
          /\ Failed => file = file0

\* A successful update of a collection of two records, one of them holding
\* an email that is escaped in the file, has rewritten the file.
StorageMirrorsMemoryWitness ==
    /\ Returned("update") /\ Succeeded
    /\ Len(users) = 2
    /\ file # file0
    /\ \E i \in DOMAIN users : users[i]["email"] = NewlineEmail

-----------------------------------------------------------------------------
(* C3 *)

\* C3: every record's email matches the validation pattern, as a whole
\* string, in every state reached by create, update and delete from the
\* empty collection.
EmailsMatchPattern ==
    \A i \in DOMAIN users : MatchesWholeString(users[i]["email"])

-----------------------------------------------------------------------------
(* C4 *)

\* C4: from the empty collection, create(r1) and then create(r2), for records
\* with valid emails and distinct ids (the empty id included), both return
\* True, and afterwards read_user(r1.id) is r1 and read_user(r2.id) is r2.
CreateTwoThenRead ==
    (/\ Returned("create")
     /\ MatchesWholeString(arg.user["email"])
     /\ \/ users0 = <<>>
        \/ /\ Len(users0) = 1
           /\ users0[1] \in NewUsers
           /\ MatchesWholeString(users0[1]["email"])
           /\ users0[1]["id"] # arg.user["id"])
    => /\ Succeeded
       /\ read_user(users, {arg.user["id"]}) = [kind |-> "user", val |-> <<arg.user>>]
       /\ \A i \in DOMAIN users0 :
             read_user(users, {users0[i]["id"]}) = [kind |-> "user", val |-> <<users0[i]>>]

-----------------------------------------------------------------------------
(* C5 *)

\* C5: create_user of a record whose id is the id of a record of the
\* collection fails with DuplicateId and leaves the collection, contents and
\* order, as it was.
DuplicateCreateRejected ==
    (Returned("create") /\ HasId(users0, arg.user["id"]))
    => DuplicateId /\ users = users0

\* A create of a record with a valid email and the empty id, which the
\* first of two records holds, has been rejected.
DuplicateCreateWitness ==
    /\ Returned("create")
    /\ Len(users0) = 2
    /\ arg.user["id"] = <<>>
    /\ users0[1]["id"] = <<>>
    /\ validate_email(arg.user["email"])
    /\ DuplicateId

-----------------------------------------------------------------------------
(* C6 *)

\* C6, in the cases where the id does not decide first (a create whose id no
\* record has, an update whose id a record has): a create whose email fails
\* the pattern, and an update whose partial object holds an email that fails
\* the pattern, fails with InvalidEmail and leaves the collection unchanged,
\* no field of the update applied.
InvalidEmailRejected ==
    (\/ /\ Returned("create")
        /\ ~MatchesWholeString(arg.user["email"])
        /\ ~HasId(users0, arg.user["id"])
     \/ /\ Returned("update")
        /\ "email" \in DOMAIN arg.fields
        /\ ~MatchesWholeString(arg.fields["email"])
        /\ HasId(users0, arg.id))
    => InvalidEmail /\ users = users0

-----------------------------------------------------------------------------
(* C7 *)

\* C7: update_user and delete_user with an id no record has fail with
\* NotFound and leave the collection and the file unchanged.
NotFoundLeavesAll ==
    (/\ pc = "done" /\ op \in {"update", "delete"}
     /\ ~HasId(users0, arg.id))
    => NotFound /\ users = users0 /\ file = file0

\* An update that carries fields, with an id that none of two records has,
\* has returned.
NotFoundWitness ==
    /\ Returned("update")
    /\ Len(users0) = 2
    /\ ~HasId(users0, arg.id)
    /\ arg.fields = [age |-> 31]
    /\ NotFound

-----------------------------------------------------------------------------
(* C8 *)

\* C8: after a delete_user(id) that returned True, read_user(id) finds
\* nothing.
DeleteThenReadNotFound ==
    (Returned("delete") /\ Succeeded) => ReadNotFound(read_user(users, {arg.id}))

-----------------------------------------------------------------------------
(* C9 *)

\* C9: read_user with an id (any string, the empty one included) returns the
\* first record with that id, or finds nothing when no record has it; only
\* without an id does it return the collection.
ReadReturnsFirstMatch ==
    /\ (Returned("read") /\ arg.id # {}) =>
          LET id == CHOOSE s \in arg.id : TRUE
          IN  IF HasId(users, id)
              THEN ret = [kind |-> "user", val |-> <<users[FirstIndex(users, id)]>>]
              ELSE ReadNotFound(ret)
    /\ (Returned("read") /\ arg.id = {}) => ret = [kind |-> "list", val |-> users]

-----------------------------------------------------------------------------
(* C10 *)

\* A record matches the criteria that were given (a criterion that is not
\* None, whatever its value).
MatchesGiven(u, name, email, age) ==
    /\ \A s \in name : lower(u["name"]) = lower(s)
    /\ \A s \in email : lower(u["email"]) = lower(s)
    /\ \A n \in age : u["age"] = n

\* C10: search_users returns the records that match every criterion that was
\* given (age 0 and the empty name included), in the order of the collection.
SearchReturnsAllMatches ==
    Returned("search") =>
        ret.val = SelectSeq(users, LAMBDA u :
                      MatchesGiven(u, arg.name, arg.email, arg.age))

-----------------------------------------------------------------------------
(* C11 *)

\* The index of the first record of us whose id is id (one exists)
FirstWithId(us, id) ==
    CHOOSE i \in DOMAIN us :
        us[i]["id"] = id /\ \A j \in DOMAIN us : us[j]["id"] = id => i <= j

\* C11: an update_user that returned True has changed only the first record
\* whose id matches, and in it only the keys of the partial object, each set
\* to the given value; every other key keeps its value, and every other
\* record, the number of records and their order are as they were.
UpdateChangesOnlyGivenKeys ==
    (Returned("update") /\ Succeeded) =>
        /\ HasId(users0, arg.id)
        /\ Len(users) = Len(users0)
        /\ LET i == FirstWithId(users0, arg.id)
           IN  /\ \A j \in DOMAIN users0 : j # i => users[j] = users0[j]
               /\ DOMAIN users[i] = DOMAIN users0[i] \cup DOMAIN arg.fields
               /\ \A k \in DOMAIN arg.fields : users[i][k] = arg.fields[k]
               /\ \A k \in DOMAIN users0[i] \ DOMAIN arg.fields :
                     users[i][k] = users0[i][k]

\* An update of two keys has succeeded on a collection whose two records have
\* the id it was given, and has changed the email of the first.
UpdateChangesOnlyGivenKeysWitness ==
    /\ Returned("update") /\ Succeeded
    /\ Len(users0) = 2
    /\ users0[1]["id"] = arg.id /\ users0[2]["id"] = arg.id
    /\ DOMAIN arg.fields = {"name", "email"}
    /\ users[1]["email"] # users0[1]["email"]

-----------------------------------------------------------------------------
(* C12 *)

\* C12: validate_email(s) is True exactly when the whole of s, from its first
\* to its last character, is the pattern; a string with a character after a
\* match, a trailing newline included, is rejected.
ValidateEmailIffWholeMatch ==
    Returned("validate") => ret = Bool(MatchesWholeString(arg.email))

-----------------------------------------------------------------------------
(* C13 *)

\* C13: create_user checks the id first and the email second: a create whose
\* id a record has and whose email fails the pattern signals DuplicateId, and
\* a create signals DuplicateId only when a record with its id exists.
CreateChecksIdThenEmail ==
    Returned("create") =>
        /\ (HasId(users0, arg.user["id"]) /\ ~MatchesWholeString(arg.user["email"]))
              => DuplicateId
        /\ DuplicateId => HasId(users0, arg.user["id"])

-----------------------------------------------------------------------------
(* C14 *)

-----------------------------------------------------------------------------
(* C15 *)

\* C15: UserManager(filename) on a location without a file yields the empty
\* collection; on a file holding a JSON array it yields that array, in
\* order; on a file that is not JSON it fails with StorageCorrupt and yields
\* no store, the empty one included.
InitializeLoadsOrFails ==
    op = "init" =>
        /\ ~file0.exists => pc = "done" /\ users = <<>>
        /\ \A c \in FileCollections :
              file0 = json_dump(c) => pc = "done" /\ users = c
        /\ file0 \in CorruptFiles => pc = "raised" /\ msg = "StorageCorrupt"
        /\ file = file0

\* The constructor has failed on a file of two records whose first email has
\* no closing quote.
InitializeLoadsOrFailsWitness ==
    /\ op = "init"
    /\ pc = "raised"
    /\ Len(file0.array) = 2
    /\ file0 = Unterminated(json_dump(
            <<User(<<"2">>, <<"A">>, NewlineEmail, 30), User(<<>>, <<"A">>, BadEmail, 0)>>))

-----------------------------------------------------------------------------
(* C16 *)

\* C16: read_user (with or without an id) and search_users leave the
\* collection and the file as they were, and a file that did not exist still
\* does not exist.
ReadAndSearchChangeNothing ==
    (pc = "done" /\ op \in {"read", "search"}) =>
        /\ users = users0
        /\ file = file0
        /\ ~file0.exists => ~file.exists

\* A read_user without an id has returned the empty collection while no file
\* exists.
ReadAndSearchChangeNothingWitness ==
    /\ Returned("read")
    /\ arg.id = {}
    /\ ret = [kind |-> "list", val |-> <<>>]
    /\ ~file.exists

====
